---- MODULE Spec2Model ----
(***************************************************************************)
(* Model of tensorboard/tools/diagnose_me.py: the check registry (CHECKS,  *)
(* the check decorator), the runner main(), and the probes pip, which,     *)
(* tensorboard_binary_path, readable_fqdn and full_pip_freeze.             *)
(*                                                                         *)
(* A run is: the module body is loaded (every @check decorator registers   *)
(* its function), then main() walks CHECKS.  Python values are modelled as *)
(* follows: None is <<>> and a present value v is <<v>> where an optional  *)
(* is needed; an iterable is a record of the items it will yield followed  *)
(* by the exception (or "none") that ends it; output is the sequence of    *)
(* strings written to sys.stdout.                                          *)
(***************************************************************************)
EXTENDS Integers, Sequences, FiniteSets, TLC

VARIABLES
  module,              \* the decorated functions of the module, in file order
  load_i,              \* index of the next @check decorator to execute
  CHECKS,              \* the registry (line 40): __name__ of each wrapper
  pc,                  \* position of the program
  i,                   \* index in CHECKS of the for-loop of main()
  it,                  \* the iterable being consumed by suggestions.extend
  exc,                 \* the exception in flight ("none" when there is none)
  suggestions,         \* the list accumulated by main()
  j,                   \* index of the rendering loop over suggestions
  out,                 \* lines written to sys.stdout so far
  exit_status,         \* <<>> while running, <<n>> once the process has ended
  environ,             \* os.environ
  initial_environ,     \* the environment the process was started with
  old_pythonwarnings,  \* local of pip()
  pip_ret,             \* outcome of the subprocess call inside pip()
  which_result,        \* what running which tensorboard does on this machine
  fqdn_result,         \* what socket.getfqdn() does on this machine
  hostname_result,     \* what running hostname does on this machine
  pip_result           \* what running python -m pip freeze --all does

vars == <<module, load_i, CHECKS, pc, i, it, exc, suggestions, j, out,
          exit_status, environ, initial_environ, old_pythonwarnings, pip_ret,
          which_result, fqdn_result, hostname_result, pip_result>>

world == <<initial_environ, which_result, fqdn_result, hostname_result,
           pip_result, module>>

----------------------------------------------------------------------------
(* Bounds *)

MaxChecks == 3        \* longest module of test checks
MaxHostLen == 3       \* longest output of the hostname command, in bytes

----------------------------------------------------------------------------
(* Values *)

None == <<>>

Some(v) == <<v>>

Suggestion(headline, description) ==
  [headline |-> headline, description |-> description]

\* The value None as the result of a check function.
NoneResult == [kind |-> "None", logs |-> <<>>, items |-> <<>>, exc |-> "none"]

\* iter(())
EmptyIterator == [kind |-> "iter", logs |-> <<>>, items |-> <<>>, exc |-> "none"]

\* A generator object: running it writes logs, yields items, then finishes
\* (exc = "none") or raises exc.
Generator(logs, items, e) ==
  [kind |-> "iter", logs |-> logs, items |-> items, exc |-> e]

\* Outcome of calling a function: it raised (raised # "none") or returned value.
Returned(logs, value) == [raised |-> "none", logs |-> logs, value |-> value]

Raised(logs, e) == [raised |-> e, logs |-> logs, value |-> NoneResult]

\* Exception classes that do not derive from Exception.
BaseOnly == {"KeyboardInterrupt", "SystemExit", "GeneratorExit"}

\* a narrower class test: only ValueError
IsException_OnlyValueError(e) == e = "ValueError"

\* isinstance(e, Exception)
IsException(e) == e \notin BaseOnly

----------------------------------------------------------------------------
(* os.environ *)

PYTHONWARNINGS_KEY == "PYTHONWARNINGS"

\* os.environ.get(key)
EnvGet(env, key) == IF key \in DOMAIN env THEN Some(env[key]) ELSE None

\* os.environ[key] = v
EnvSet(env, key, v) ==
  [k \in (DOMAIN env) \cup {key} |-> IF k = key THEN v ELSE env[k]]

\* del os.environ[key]
EnvDel(env, key) == [k \in (DOMAIN env) \ {key} |-> env[k]]

----------------------------------------------------------------------------
(* pip (lines 80-102): the pieces around the subprocess call *)

\* new_pythonwarnings; the test of old_pythonwarnings is false for None and for "".
NewPythonWarnings(old) ==
  "ignore:DEPRECATION" \o (IF old # None /\ old[1] # "" THEN "," \o old[1] ELSE "")

\* the finally clause testing the old value for truth instead of for None
RestorePythonWarnings_Truthy(env, old) ==
  IF old = None \/ old[1] = ""
    THEN EnvDel(env, PYTHONWARNINGS_KEY)
    ELSE EnvSet(env, PYTHONWARNINGS_KEY, old[1])

\* the finally clause
RestorePythonWarnings(env, old) ==
  IF old = None
    THEN EnvDel(env, PYTHONWARNINGS_KEY)
    ELSE EnvSet(env, PYTHONWARNINGS_KEY, old[1])

----------------------------------------------------------------------------
(* which (lines 105-115) *)

\* an except clause catching every exception
WhichCatches_All(e) == TRUE

\* the except clause of which(): the classes it catches
WhichCatches(e) == e = "CalledProcessError"

\* r is what running the lookup command does: it prints r.output and exits 0
\* ("ok"), exits nonzero ("CalledProcessError"), or cannot be started
\* ("OSError").  The result is an optional bytestring, or an exception.
which(r) ==
  IF r.status = "ok" THEN [raised |-> "none", value |-> Some(r.output)]
  ELSE IF WhichCatches(r.status) THEN [raised |-> "none", value |-> None]
  ELSE [raised |-> r.status, value |-> None]

\* "%r" of None or of a bytestring
Repr(v) == IF v = None THEN "None" ELSE "b'" \o v[1] \o "'"

\* tensorboard_binary_path (lines 215-217): logs and returns None.
tensorboard_binary_path(r) ==
  LET w == which(r) IN
  IF w.raised # "none"
    THEN Raised(<<>>, w.raised)
    ELSE Returned(<<"INFO: which tensorboard: " \o Repr(w.value)>>, NoneResult)

----------------------------------------------------------------------------
(* readable_fqdn (lines 220-257) *)

\* bytes that bytes.strip() removes: \t \n \v \f \r and space
Whitespace == {9, 10, 11, 12, 13, 32}

RECURSIVE lstrip(_)
lstrip(b) ==
  IF b # <<>> /\ Head(b) \in Whitespace THEN lstrip(Tail(b)) ELSE b

RECURSIVE rstrip(_)
rstrip(b) ==
  IF b # <<>> /\ b[Len(b)] \in Whitespace
    THEN rstrip(SubSeq(b, 1, Len(b) - 1))
    ELSE b

strip(b) == rstrip(lstrip(b))

\* b"<unavailable>"
Unavailable == <<60, 117, 110, 97, 118, 97, 105, 108, 97, 98, 108, 101, 62>>

\* the range test with 0x7F as its upper end
is_non_ascii_UpTo7F(b) == ~ (\A k \in 1..Len(b) : 32 <= b[k] /\ b[k] <= 127)

\* lines 231-234
is_non_ascii(b) == ~ (\A k \in 1..Len(b) : 32 <= b[k] /\ b[k] <= 126)

AsciiHostname ==
  Suggestion("Use an ASCII hostname",
             "Your computer's hostname contains bytes outside of the printable ASCII range.")

SimplerHostname ==
  Suggestion("Use a simpler hostname",
             "Python can't read your computer's hostname.")

\* binary_hostname (lines 227-230): an optional bytestring; None stands for
\* the subprocess call raising something other than CalledProcessError.
binary_hostname(h) ==
  IF h.status = "ok" THEN Some(strip(h.output))
  ELSE IF h.status = "CalledProcessError" THEN Some(Unavailable)
  ELSE None

\* The generator readable_fqdn() returns: f is what socket.getfqdn() does,
\* h is what running hostname does.
readable_fqdn(f, h) ==
  IF f.status = "ok"
    THEN Generator(<<"INFO: socket.getfqdn(): '" \o f.output \o "'">>, <<>>, "none")
    ELSE LET b == binary_hostname(h) IN
         IF b = None
           THEN Generator(<<>>, <<>>, h.status)
           ELSE Generator(<<>>,
                          <<IF is_non_ascii(b[1]) THEN AsciiHostname
                                                  ELSE SimplerHostname>>,
                          f.status)

----------------------------------------------------------------------------
(* Check functions passed to check(fn) *)

\* Test checks: one of each shape a check function can have.
TestChecks ==
  {"returns_none", "yields_one", "yields_two", "yields_then_raises",
   "raises", "interrupted"}

\* The checks of the module that call which, hostname and pip, in file order.
ProbeModule == <<"tensorboard_binary_path", "readable_fqdn", "full_pip_freeze">>

\* fn(): what calling the function registered under this name does.
\* (full_pip_freeze is not here: it runs in steps, see PipEnter.)
fn(name) ==
  CASE name = "returns_none" ->
         Returned(<<"INFO: returns_none ran">>, NoneResult)
    [] name = "yields_one" ->
         Returned(<<>>, Generator(<<>>, <<Suggestion("Fix X", "Do Y")>>, "none"))
    [] name = "yields_two" ->
         Returned(<<>>, Generator(<<"INFO: yields_two ran">>,
                                  <<Suggestion("Fix A", "Do A"),
                                    Suggestion("Fix B", "Do B")>>, "none"))
    [] name = "yields_then_raises" ->
         Returned(<<>>, Generator(<<>>, <<Suggestion("Fix P", "Do P")>>,
                                  "ValueError"))
    [] name = "raises" -> Raised(<<>>, "ImportError")
    [] name = "interrupted" ->
         Returned(<<>>, Generator(<<>>, <<>>, "KeyboardInterrupt"))
    [] name = "tensorboard_binary_path" -> tensorboard_binary_path(which_result)
    [] name = "readable_fqdn" ->
         Returned(<<>>, readable_fqdn(fqdn_result, hostname_result))

\* a wrapper that passes None through
wrapper_result_Unchanged(result) == result

\* line 71: the value wrapper() returns for fn's result
wrapper_result(result) == IF result = NoneResult THEN EmptyIterator ELSE result

\* wrapper() (lines 69-71)
wrapper(name) ==
  LET r == fn(name) IN
  IF r.raised # "none" THEN r ELSE [r EXCEPT !.value = wrapper_result(r.value)]

\* a registry that skips a function it already holds
Registered_Dedup(checks, name) ==
  IF \E k \in 1..Len(checks) : checks[k] = name THEN checks
                                                ELSE Append(checks, name)

\* CHECKS.append(wrapper) (line 72)
Registered(checks, name) == Append(checks, name)

----------------------------------------------------------------------------
(* The text main() prints *)

\* six backquote characters (a TLA+ string cannot hold a backquote)
markdown_ticks == "<6 backquotes>"

FramingLine(name) == "--- check: " \o name

\* traceback.print_exc(file=sys.stdout), for an exception of class e
Traceback(e) == "Traceback (most recent call last): " \o e

SuggestionSection(s) ==
  <<"", "### Suggestion: " \o s.headline, "", s.description>>

TryEachSuggestion ==
  "Please try each suggestion enumerated above to determine whether it\nsolves your problem. If none of these suggestions works, please copy\nALL of the above output, including the lines containing only\nbackticks, into your GitHub issue or comment. Be sure to redact any\nsensitive information."

NoActionItems ==
  "No action items identified. Please copy ALL of the above output,\nincluding the lines containing only backticks, into your GitHub issue\nor comment. Be sure to redact any sensitive information."

\* the two footers swapped
NextSteps_Swapped(suggs) ==
  IF suggs = <<>> THEN TryEachSuggestion ELSE NoActionItems

\* lines 340-357: the footer chosen for a suggestion list
NextSteps(suggs) == IF suggs # <<>> THEN TryEachSuggestion ELSE NoActionItems

\* no handler around the call
HandlerCatches_Nothing(e) == FALSE

\* except Exception (line 324)
HandlerCatches(e) == IsException(e)

\* assignment in place of extend: the list holds the latest item only
ListExtendItem_Replace(lst, item) == <<item>>

\* what list.extend does to the list for one item taken from the iterable
ListExtendItem(lst, item) == Append(lst, item)

\* the rendering loop walking the list backwards
RenderedAt_Reversed(suggs, k) == suggs[Len(suggs) + 1 - k]

\* the suggestion the rendering loop visits at its k-th iteration
RenderedAt(suggs, k) == suggs[k]

----------------------------------------------------------------------------
(* Initial states *)

SeqsUpTo(S, n) == UNION {[1..k -> S] : k \in 0..n}

\* Values of PYTHONWARNINGS the process may be started with.
PythonWarningsValues == {"", "error"}

Environments ==
  {[k \in {} |-> ""]} \cup
  {[k \in {PYTHONWARNINGS_KEY} |-> v] : v \in PythonWarningsValues}

\* Outcomes of a subprocess.check_output call printing text.
SubprocessOutcomes(outputs) ==
  {[status |-> "ok", output |-> o] : o \in outputs}
    \cup {[status |-> "CalledProcessError", output |-> ""],
          [status |-> "OSError", output |-> ""]}

\* Bytes the hostname command may print: newline, space, '~', DEL.
HostBytes == {10, 32, 126, 127}

HostnameOutcomes ==
  {[status |-> "ok", output |-> o] : o \in SeqsUpTo(HostBytes, MaxHostLen)}
    \cup {[status |-> "CalledProcessError", output |-> <<>>],
          [status |-> "OSError", output |-> <<>>]}

FqdnOutcomes ==
  {[status |-> "ok", output |-> "host.example.com"],
   [status |-> "UnicodeDecodeError", output |-> ""]}

PipIdle == [status |-> "idle", output |-> ""]

\* A module of test checks on a machine where every probe succeeds.
TestInit ==
  /\ module \in SeqsUpTo(TestChecks, MaxChecks)
  /\ initial_environ = [k \in {} |-> ""]
  /\ which_result = [status |-> "ok", output |-> "/usr/bin/tensorboard"]
  /\ fqdn_result = [status |-> "ok", output |-> "host.example.com"]
  /\ hostname_result = [status |-> "ok", output |-> <<126>>]
  /\ pip_result = [status |-> "ok", output |-> "pip==19.1"]

\* The module's probe checks on any machine.
ProbeInit ==
  /\ module = ProbeModule
  /\ initial_environ \in Environments
  /\ which_result \in SubprocessOutcomes({"/usr/bin/tensorboard"})
  /\ fqdn_result \in FqdnOutcomes
  /\ hostname_result \in HostnameOutcomes
  /\ pip_result \in SubprocessOutcomes({"pip==19.1"})

Init ==
  /\ (TestInit \/ ProbeInit)
  /\ load_i = 1
  /\ CHECKS = <<>>
  /\ pc = "load"
  /\ i = 1
  /\ it = EmptyIterator
  /\ exc = "none"
  /\ suggestions = <<>>
  /\ j = 1
  /\ out = <<>>
  /\ exit_status = None
  /\ environ = initial_environ
  /\ old_pythonwarnings = None
  /\ pip_ret = PipIdle

----------------------------------------------------------------------------
(* Module load: the @check decorators (lines 54-73) *)

Register ==
  /\ pc = "load"
  /\ load_i <= Len(module)
  /\ CHECKS' = Registered(CHECKS, module[load_i])
  /\ load_i' = load_i + 1
  /\ UNCHANGED <<world, pc, i, it, exc, suggestions, j, out, exit_status,
                 environ, old_pythonwarnings, pip_ret>>

----------------------------------------------------------------------------
(* main() (lines 311-357) *)

\* lines 312-319
MainStart ==
  /\ pc = "load"
  /\ load_i > Len(module)
  /\ out' = out \o <<"### Diagnostics", "", markdown_ticks>>
  /\ suggestions' = <<>>
  /\ i' = 1
  /\ pc' = "loop"
  /\ UNCHANGED <<world, load_i, CHECKS, it, exc, j, exit_status, environ,
                 old_pythonwarnings, pip_ret>>

\* line 321
LoopFrame ==
  /\ pc = "loop"
  /\ i <= Len(CHECKS)
  /\ out' = Append(out, FramingLine(CHECKS[i]))
  /\ pc' = "call"
  /\ UNCHANGED <<world, load_i, CHECKS, i, it, exc, suggestions, j,
                 exit_status, environ, old_pythonwarnings, pip_ret>>

\* line 323, the call check(): the wrapper runs fn
CallCheck ==
  /\ pc = "call"
  /\ CHECKS[i] # "full_pip_freeze"
  /\ LET r == wrapper(CHECKS[i]) IN
       /\ out' = out \o r.logs
       /\ IF r.raised # "none"
            THEN exc' = r.raised /\ pc' = "except" /\ it' = it
            ELSE exc' = exc /\ pc' = "extend" /\ it' = r.value
  /\ UNCHANGED <<world, load_i, CHECKS, i, suggestions, j, exit_status,
                 environ, old_pythonwarnings, pip_ret>>

\* line 323, suggestions.extend(...): one step of the iteration.  The list
\* takes each item as the iterable yields it.
ExtendStep ==
  /\ pc = "extend"
  /\ out' = out \o it.logs
  /\ IF it.kind = "None"
       THEN \* extend(None): 'NoneType' object is not iterable
            /\ exc' = "TypeError" /\ pc' = "except"
            /\ UNCHANGED <<suggestions, it, i>>
       ELSE IF it.items # <<>>
       THEN /\ suggestions' = ListExtendItem(suggestions, Head(it.items))
            /\ it' = [it EXCEPT !.logs = <<>>, !.items = Tail(it.items)]
            /\ UNCHANGED <<exc, pc, i>>
       ELSE IF it.exc = "none"
       THEN /\ pc' = "loop" /\ i' = i + 1 /\ it' = EmptyIterator
            /\ UNCHANGED <<exc, suggestions>>
       ELSE /\ exc' = it.exc /\ pc' = "except" /\ it' = EmptyIterator
            /\ UNCHANGED <<suggestions, i>>
  /\ UNCHANGED <<world, load_i, CHECKS, j, exit_status, environ,
                 old_pythonwarnings, pip_ret>>

\* lines 324-326; an exception the handler does not catch leaves main() and
\* ends the process with a nonzero status
Except ==
  /\ pc = "except"
  /\ IF HandlerCatches(exc)
       THEN /\ out' = Append(out, Traceback(exc))
            /\ exc' = "none"
            /\ pc' = "loop"
            /\ i' = i + 1
            /\ UNCHANGED exit_status
       ELSE /\ pc' = "aborted"
            /\ exit_status' = Some(1)
            /\ UNCHANGED <<out, exc, i>>
  /\ UNCHANGED <<world, load_i, CHECKS, it, suggestions, j, environ,
                 old_pythonwarnings, pip_ret>>

\* lines 327-329
LoopEnd ==
  /\ pc = "loop"
  /\ i > Len(CHECKS)
  /\ out' = out \o <<markdown_ticks, "", "End of diagnostics.">>
  /\ j' = 1
  /\ pc' = "render"
  /\ UNCHANGED <<world, load_i, CHECKS, i, it, exc, suggestions, exit_status,
                 environ, old_pythonwarnings, pip_ret>>

\* lines 331-335, one iteration
RenderSuggestion ==
  /\ pc = "render"
  /\ j <= Len(suggestions)
  /\ out' = out \o SuggestionSection(RenderedAt(suggestions, j))
  /\ j' = j + 1
  /\ UNCHANGED <<world, load_i, CHECKS, pc, i, it, exc, suggestions,
                 exit_status, environ, old_pythonwarnings, pip_ret>>

\* lines 337-357, then the process ends
Footer ==
  /\ pc = "render"
  /\ j > Len(suggestions)
  /\ out' = out \o <<"", "### Next steps", "", NextSteps(suggestions)>>
  /\ pc' = "done"
  /\ exit_status' = Some(0)
  /\ UNCHANGED <<world, load_i, CHECKS, i, it, exc, suggestions, j, environ,
                 old_pythonwarnings, pip_ret>>

----------------------------------------------------------------------------
(* full_pip_freeze (lines 295-297) calling pip (lines 80-102) *)

\* lines 88-96: read the old value, set the new one
PipEnter ==
  /\ pc = "call"
  /\ CHECKS[i] = "full_pip_freeze"
  /\ old_pythonwarnings' = EnvGet(environ, PYTHONWARNINGS_KEY)
  /\ environ' = EnvSet(environ, PYTHONWARNINGS_KEY,
                       NewPythonWarnings(old_pythonwarnings'))
  /\ pc' = "pip_call"
  /\ UNCHANGED <<world, load_i, CHECKS, i, it, exc, suggestions, j, out,
                 exit_status, pip_ret>>

\* line 97: the subprocess runs and returns its output or raises
PipSubprocess ==
  /\ pc = "pip_call"
  /\ pip_ret' = pip_result
  /\ pc' = "pip_finally"
  /\ UNCHANGED <<world, load_i, CHECKS, i, it, exc, suggestions, j, out,
                 exit_status, environ, old_pythonwarnings>>

\* lines 98-102, then the rest of full_pip_freeze and of its wrapper
PipFinally ==
  /\ pc = "pip_finally"
  /\ environ' = RestorePythonWarnings(environ, old_pythonwarnings)
  /\ old_pythonwarnings' = None
  /\ pip_ret' = PipIdle
  /\ IF pip_ret.status = "ok"
       THEN /\ out' = Append(out, "INFO: pip freeze --all:\n" \o pip_ret.output)
            /\ it' = wrapper_result(NoneResult)
            /\ pc' = "extend"
            /\ exc' = exc
       ELSE /\ exc' = pip_ret.status
            /\ pc' = "except"
            /\ UNCHANGED <<out, it>>
  /\ UNCHANGED <<world, load_i, CHECKS, i, suggestions, j, exit_status>>

----------------------------------------------------------------------------

Next ==
  \/ Register
  \/ MainStart
  \/ LoopFrame
  \/ CallCheck
  \/ ExtendStep
  \/ Except
  \/ LoopEnd
  \/ RenderSuggestion
  \/ Footer
  \/ PipEnter
  \/ PipSubprocess
  \/ PipFinally

Spec == Init /\ [][Next]_vars

\* Every call a check makes returns or raises (no subprocess hangs), so the
\* single thread of main() always takes its next step.
FairSpec == Spec /\ WF_vars(Next)

TypeOK ==
  /\ pc \in {"load", "loop", "call", "extend", "except", "render", "done",
             "aborted", "pip_call", "pip_finally"}
  /\ load_i \in 1..(Len(module) + 1)
  /\ Len(CHECKS) <= Len(module)

----------------------------------------------------------------------------
(* What each registered check does when run to its end, in closed form *)

\* the suggestions the check yields before it finishes or raises
CheckItems(name) ==
  IF name = "full_pip_freeze" THEN <<>>
  ELSE LET r == fn(name) IN IF r.raised # "none" THEN <<>> ELSE r.value.items

\* the exception that ends the check, "none" when it completes normally
CheckError(name) ==
  IF name = "full_pip_freeze"
    THEN (IF pip_result.status = "ok" THEN "none" ELSE pip_result.status)
    ELSE LET r == fn(name) IN IF r.raised # "none" THEN r.raised ELSE r.value.exc

\* the log lines the check writes
CheckLogs(name) ==
  IF name = "full_pip_freeze"
    THEN (IF pip_result.status = "ok"
            THEN <<"INFO: pip freeze --all:\n" \o pip_result.output>>
            ELSE <<>>)
    ELSE LET r == fn(name) IN
         IF r.raised # "none" THEN r.logs ELSE r.logs \o r.value.logs

\* the function returns None (no explicit value)
ReturnsNone(name) ==
  IF name = "full_pip_freeze"
    THEN pip_result.status = "ok"
    ELSE LET r == fn(name) IN r.raised = "none" /\ r.value = NoneResult

\* suggestions yielded by the first k registered checks, in registration order
RECURSIVE YieldedUpTo(_)
YieldedUpTo(k) ==
  IF k = 0 THEN <<>> ELSE YieldedUpTo(k - 1) \o CheckItems(CHECKS[k])

\* the same, leaving out every check that raised
RECURSIVE NonFailingUpTo(_)
NonFailingUpTo(k) ==
  IF k = 0 THEN <<>>
  ELSE NonFailingUpTo(k - 1) \o
       (IF CheckError(CHECKS[k]) = "none" THEN CheckItems(CHECKS[k]) ELSE <<>>)

\* the lines check k leaves inside the fenced block
CheckBlock(k) ==
  <<FramingLine(CHECKS[k])>> \o CheckLogs(CHECKS[k]) \o
  (IF CheckError(CHECKS[k]) = "none" THEN <<>>
                                     ELSE <<Traceback(CheckError(CHECKS[k]))>>)

RECURSIVE BlocksUpTo(_)
BlocksUpTo(k) == IF k = 0 THEN <<>> ELSE BlocksUpTo(k - 1) \o CheckBlock(k)

ReportHeader == <<"### Diagnostics", "", markdown_ticks>>

RECURSIVE Sections(_)
Sections(suggs) ==
  IF suggs = <<>> THEN <<>>
  ELSE SuggestionSection(Head(suggs)) \o Sections(Tail(suggs))

Finished == pc \in {"render", "done"}

----------------------------------------------------------------------------
(* C1 *)

\* C1 as claimed: at the end of the check loop the accumulated list is the
\* concatenation, in registration order, of the suggestions of the checks
\* that did not raise; a check that raised contributes nothing.
C1_OnlyNonFailing ==
  Finished => suggestions = NonFailingUpTo(Len(CHECKS))

\* C1 amended: the accumulated list is the concatenation, in registration
\* order, of what every check yielded before it finished or raised; the
\* suggestions a check yielded before raising are retained.
C1_YieldedPrefixesKept ==
  /\ pc = "loop" => suggestions = YieldedUpTo(i - 1)
  /\ Finished => suggestions = YieldedUpTo(Len(CHECKS))

C1_Witness ==
  /\ pc = "done"
  /\ CHECKS = <<"yields_one", "yields_then_raises", "yields_two">>
  /\ Len(suggestions) = 4

----------------------------------------------------------------------------
(* C2 *)

\* C2: every registered check runs once, in registration order, whatever
\* earlier checks raised: the text after the opening fence is, check by
\* check, the framing line, the check's log lines and, when the check raised
\* an Exception, its traceback, which is therefore after its own framing
\* line and before the next one; the closing fence comes after all of them.
\* The loop is left early only by an exception that is not an Exception.
C2_EveryCheckRunsInOrder ==
  /\ pc = "loop" => out = ReportHeader \o BlocksUpTo(i - 1)
  /\ pc = "call" => out = ReportHeader \o BlocksUpTo(i - 1)
                            \o <<FramingLine(CHECKS[i])>>
  /\ Finished =>
       /\ i = Len(CHECKS) + 1
       /\ SubSeq(out, 1, 4 + Len(BlocksUpTo(Len(CHECKS)))) =
            ReportHeader \o BlocksUpTo(Len(CHECKS)) \o <<markdown_ticks>>
  /\ pc = "aborted" => exc \in BaseOnly

C2_Witness ==
  /\ pc = "done"
  /\ CHECKS = <<"raises", "yields_then_raises", "yields_one">>
  /\ SubSeq(out, 4, 9) =
       <<"--- check: raises",
         "Traceback (most recent call last): ImportError",
         "--- check: yields_then_raises",
         "Traceback (most recent call last): ValueError",
         "--- check: yields_one",
         markdown_ticks>>

----------------------------------------------------------------------------
(* C3 *)

\* C3: what the wrapper hands to suggestions.extend is never None: it is an
\* empty iterator when the function returned None and the function's own
\* result otherwise; consuming the result of a function that returned None
\* adds no suggestion, writes no traceback and moves on to the next check.
C3_WrapperNeverReturnsNone ==
  [][/\ pc' = "extend" => it'.kind = "iter"
     /\ (pc \in {"call", "pip_finally"} /\ pc' = "extend") =>
          it' = (IF ReturnsNone(CHECKS[i]) THEN EmptyIterator
                                           ELSE fn(CHECKS[i]).value)
     /\ (pc = "extend" /\ ReturnsNone(CHECKS[i])) =>
          /\ pc' = "loop" /\ i' = i + 1
          /\ suggestions' = suggestions /\ out' = out /\ exc' = "none"]_vars

C3_Witness ==
  /\ pc = "loop" /\ i = 3
  /\ CHECKS = <<"yields_one", "returns_none">>
  /\ suggestions = <<Suggestion("Fix X", "Do Y")>>
  /\ out[Len(out)] = "INFO: returns_none ran"

----------------------------------------------------------------------------
(* C4 *)

\* C4: after n registration calls the registry holds exactly the n
\* registered functions in call order, duplicates included; nothing later
\* reorders or removes an entry.
C4_RegistryIsCallHistory ==
  /\ Len(CHECKS) = load_i - 1
  /\ CHECKS = SubSeq(module, 1, load_i - 1)

C4_Witness ==
  /\ pc = "load" /\ load_i = 4
  /\ CHECKS = <<"yields_one", "raises", "yields_one">>

----------------------------------------------------------------------------
(* C5 *)

\* C5: in the finished report the suggestion sections follow the end marker
\* in registration order of the checks they come from, and in yield order
\* within a check: the p-th suggestion of check k is the section number
\* (suggestions of checks 1..k-1) + p.
C5_SectionsInAccumulationOrder ==
  pc = "done" =>
    LET total == Len(YieldedUpTo(Len(CHECKS)))
        base  == Len(out) - 4 - 4 * total
    IN /\ base >= 1
       /\ out[base] = "End of diagnostics."
       /\ \A k \in 1..Len(CHECKS) :
            \A p \in 1..Len(CheckItems(CHECKS[k])) :
              LET m == Len(YieldedUpTo(k - 1)) + p IN
              SubSeq(out, base + 4 * (m - 1) + 1, base + 4 * m) =
                SuggestionSection(CheckItems(CHECKS[k])[p])

C5_Witness ==
  /\ pc = "done"
  /\ CHECKS = <<"yields_two", "returns_none", "yields_one">>
  /\ SubSeq(out, Len(out) - 15, Len(out) - 4) =
       <<"", "### Suggestion: Fix A", "", "Do A",
         "", "### Suggestion: Fix B", "", "Do B",
         "", "### Suggestion: Fix X", "", "Do Y">>

----------------------------------------------------------------------------
(* C6 *)

EmptyReport ==
  <<"### Diagnostics", "", markdown_ticks, markdown_ticks, "",
    "End of diagnostics.", "", "### Next steps", "", NoActionItems>>

\* C6: the report ends with the 'Next steps' footer, which is the 'Please
\* try each suggestion' text exactly when the accumulated list is non-empty
\* and the 'No action items identified' text otherwise; with no registered
\* check the report is the header, the two fences, the end marker and the
\* 'No action items identified' footer.
C6_FooterMatchesSuggestions ==
  pc = "done" =>
    /\ SubSeq(out, Len(out) - 3, Len(out) - 1) = <<"", "### Next steps", "">>
    /\ (out[Len(out)] = TryEachSuggestion) <=> (suggestions # <<>>)
    /\ (out[Len(out)] = NoActionItems) <=> (suggestions = <<>>)
    /\ CHECKS = <<>> => out = EmptyReport

C6_Witness ==
  /\ pc = "done"
  /\ CHECKS = <<"raises", "yields_one">>
  /\ out[Len(out)] = TryEachSuggestion

----------------------------------------------------------------------------
(* C7 *)

\* no check of the module ends with an exception that is not an Exception
OnlyExceptions ==
  \A k \in 1..Len(module) : CheckError(module[k]) \notin BaseOnly

\* the whole report of a run that went through every check
FullReport ==
  ReportHeader \o BlocksUpTo(Len(CHECKS))
    \o <<markdown_ticks, "", "End of diagnostics.">>
    \o Sections(YieldedUpTo(Len(CHECKS)))
    \o <<"", "### Next steps", "", NextSteps(YieldedUpTo(Len(CHECKS)))>>

\* C7: whichever checks raise an Exception, the run reaches the end of
\* main(): the process ends with status 0 and the report is complete, with
\* the closing fence, the end marker, the suggestion sections and the footer
\* in this order after the text of the last check; the closing fence is not
\* written while a check is still to run; and no Exception leaves main().
C7_RunAlwaysCompletes ==
  /\ (pc = "load" /\ OnlyExceptions) ~>
       (pc = "done" /\ exit_status = Some(0) /\ out = FullReport)
  /\ [](pc = "done" => (exit_status = Some(0) /\ out = FullReport))
  /\ [](pc \in {"loop", "call", "extend", "except", "pip_call", "pip_finally"}
          => (exit_status = None /\ out[Len(out)] # "End of diagnostics."
              /\ Len(SelectSeq(out, LAMBDA l : l = markdown_ticks)) = 1))
  /\ [](pc = "aborted" => exc \in BaseOnly)

C7_Witness ==
  /\ pc = "done" /\ exit_status = Some(0)
  /\ CHECKS = <<"raises", "yields_then_raises", "raises">>
  /\ out = FullReport

----------------------------------------------------------------------------
(* C8 *)

\* C8: outside pip() the environment is the one the process started with,
\* whether pip() returned or raised (PYTHONWARNINGS has its old value, and
\* is absent if it was absent); while the subprocess runs PYTHONWARNINGS is
\* 'ignore:DEPRECATION', followed by ',' and the old value when there was a
\* non-empty old value, and nothing else in the environment differs.
C8_PythonWarningsScoped ==
  LET old == EnvGet(initial_environ, PYTHONWARNINGS_KEY)
      during == IF old = None THEN "ignore:DEPRECATION"
                ELSE IF old = Some("") THEN "ignore:DEPRECATION"
                ELSE "ignore:DEPRECATION," \o old[1]
  IN /\ pc \in {"pip_call", "pip_finally"} =>
          /\ PYTHONWARNINGS_KEY \in DOMAIN environ
          /\ environ[PYTHONWARNINGS_KEY] = during
          /\ EnvDel(environ, PYTHONWARNINGS_KEY) =
               EnvDel(initial_environ, PYTHONWARNINGS_KEY)
     /\ pc \notin {"pip_call", "pip_finally"} => environ = initial_environ

\* pip() raised, and PYTHONWARNINGS, empty before the call, is empty again
C8_Witness ==
  /\ pc = "except" /\ CHECKS[i] = "full_pip_freeze"
  /\ exc = "CalledProcessError"
  /\ initial_environ = [k \in {PYTHONWARNINGS_KEY} |-> ""]
  /\ environ = initial_environ

----------------------------------------------------------------------------
(* C9 *)

AfterBinaryPath ==
  /\ pc \in {"extend", "except"}
  /\ CHECKS[i] = "tensorboard_binary_path"

\* C9 as claimed: when the lookup command cannot be found or exits nonzero,
\* which() returns None, the check logs that value and completes normally
\* without a suggestion and without failing.
C9_AnyLookupFailureGivesNone ==
  (AfterBinaryPath /\ which_result.status # "ok") =>
    /\ pc = "extend" /\ it = EmptyIterator /\ exc = "none"
    /\ out[Len(out)] = "INFO: which tensorboard: None"
    /\ suggestions = <<>>

\* C9 amended: when the lookup command exits nonzero which() returns None,
\* the check logs that value and completes normally without a suggestion;
\* when the lookup command cannot be started the error leaves which() and
\* the check, the runner writes its traceback, and no suggestion is produced.
C9_NonzeroExitGivesNone ==
  /\ (AfterBinaryPath /\ which_result.status = "CalledProcessError") =>
       /\ pc = "extend" /\ it = EmptyIterator /\ exc = "none"
       /\ out[Len(out)] = "INFO: which tensorboard: None"
       /\ suggestions = <<>>
  /\ (AfterBinaryPath /\ which_result.status = "OSError") =>
       /\ pc = "except" /\ exc = "OSError"
       /\ out[Len(out)] = "--- check: tensorboard_binary_path"
       /\ suggestions = <<>>
  /\ (pc = "loop" /\ i = 2 /\ CHECKS = ProbeModule) =>
       /\ suggestions = <<>>
       /\ out[Len(out)] =
            (CASE which_result.status = "ok" ->
                    "INFO: which tensorboard: b'/usr/bin/tensorboard'"
               [] which_result.status = "CalledProcessError" ->
                    "INFO: which tensorboard: None"
               [] which_result.status = "OSError" ->
                    "Traceback (most recent call last): OSError")

C9_Witness ==
  /\ pc = "loop" /\ i = 2 /\ CHECKS = ProbeModule
  /\ which_result.status = "CalledProcessError"
  /\ out[Len(out)] = "INFO: which tensorboard: None"
  /\ suggestions = <<>>

----------------------------------------------------------------------------
(* C10 *)

\* readable_fqdn has just ended (the check before it yields no suggestion)
AfterReadableFqdn(p) ==
  /\ pc = p /\ CHECKS = ProbeModule
  /\ i = (IF p = "loop" THEN 3 ELSE 2)

\* the bytes the suggestion is about: the output of the hostname command
\* without surrounding whitespace, or the placeholder
HostnameBytes ==
  IF hostname_result.status = "ok" THEN strip(hostname_result.output)
                                   ELSE Unavailable

OutsidePrintable(b) == \E k \in 1..Len(b) : b[k] < 32 \/ b[k] > 126

ExpectedHeadline ==
  IF OutsidePrintable(HostnameBytes) THEN "Use an ASCII hostname"
                                     ELSE "Use a simpler hostname"

\* C10 as claimed: whenever getfqdn fails with a decoding error the check
\* yields exactly one suggestion, chosen by the hostname bytes (the
\* placeholder when the hostname command fails), and re-raises the decoding
\* error; when getfqdn succeeds there is no suggestion and no error.
C10_AlwaysOneSuggestion ==
  /\ (pc = "except" /\ CHECKS[i] = "readable_fqdn") =>
       /\ exc = "UnicodeDecodeError"
       /\ Len(suggestions) = 1
       /\ suggestions[1].headline = ExpectedHeadline
  /\ (AfterReadableFqdn("loop") /\ fqdn_result.status = "ok") =>
       /\ suggestions = <<>>
       /\ out[Len(out)] = "INFO: socket.getfqdn(): 'host.example.com'"
  /\ (AfterReadableFqdn("loop") /\ fqdn_result.status # "ok") =>
       out[Len(out)] = "Traceback (most recent call last): UnicodeDecodeError"

\* C10 amended: as claimed when the hostname command prints a name or exits
\* nonzero (the bytes tested are its output without surrounding whitespace,
\* or the placeholder); when the hostname command cannot be started the
\* check yields no suggestion and that error is raised instead of the
\* decoding error.  Either error is contained by the runner.
C10_OneSuggestionUnlessHostnameMissing ==
  /\ (pc = "except" /\ CHECKS[i] = "readable_fqdn"
        /\ hostname_result.status # "OSError") =>
       /\ fqdn_result.status = "UnicodeDecodeError"
       /\ exc = "UnicodeDecodeError"
       /\ Len(suggestions) = 1
       /\ suggestions[1].headline = ExpectedHeadline
  /\ (pc = "except" /\ CHECKS[i] = "readable_fqdn"
        /\ hostname_result.status = "OSError") =>
       /\ fqdn_result.status = "UnicodeDecodeError"
       /\ exc = "OSError"
       /\ suggestions = <<>>
  /\ (AfterReadableFqdn("loop") /\ fqdn_result.status = "ok") =>
       /\ suggestions = <<>>
       /\ out[Len(out)] = "INFO: socket.getfqdn(): 'host.example.com'"
  /\ (AfterReadableFqdn("loop") /\ fqdn_result.status # "ok") =>
       /\ out[Len(out)] =
            (IF hostname_result.status = "OSError"
               THEN "Traceback (most recent call last): OSError"
               ELSE "Traceback (most recent call last): UnicodeDecodeError")
       /\ Len(suggestions) = (IF hostname_result.status = "OSError" THEN 0 ELSE 1)

\* the hostname is "~" followed by DEL and a newline: not printable ASCII
C10_Witness ==
  /\ AfterReadableFqdn("loop")
  /\ fqdn_result.status = "UnicodeDecodeError"
  /\ hostname_result = [status |-> "ok", output |-> <<126, 127, 10>>]
  /\ Len(suggestions) = 1 /\ suggestions[1] = AsciiHostname
  /\ out[Len(out)] = "Traceback (most recent call last): UnicodeDecodeError"

====
